---- MODULE Spec2Model ----
(***************************************************************************)
(* Model of the noised/clean Conformer encoder, the transducer trainers    *)
(* (plain and gradient accumulation) and the streaming transducer encoder. *)
(*                                                                         *)
(* Tensors are abstracted to single integers, floats to exact rationals    *)
(* [num, den] kept in lowest terms.  The gradient of a loss is abstracted  *)
(* by the loss itself (differentiation is linear, so sums and scalings of  *)
(* losses are sums and scalings of gradients).                             *)
(***************************************************************************)
EXTENDS Integers, Sequences, FiniteSets, TLC

\* ConformerEncoder
VARIABLES
    num_blocks,      \* len(self.conformer_blocks)
    dropout_on,      \* the dropout rate given to the constructor is > 0
    pe_kind,         \* positional_encoding
    enc              \* the last ConformerEncoder.call: its arguments and results

\* TransducerTrainer
VARIABLES
    steps,                  \* self.steps, the global step counter
    train_steps_per_epoch,  \* self.train_steps_per_epoch
    global_batch_size,      \* self.global_batch_size
    params,                 \* the trainable variables, abstracted to the number
                            \* of optimizer updates they have received
    tr,                     \* the training or eval step in flight: what it computed
    last_train              \* ep and lambda_ of the latest training step

\* StreamingTransducerEncoder and its streaming sessions
VARIABLES
    constructed,            \* StreamingTransducerEncoder.__init__ has run
    reductions,             \* the reductions dict given to the constructor
    nlayers,                \* the nlayers given to the constructor
    rnn_type,               \* "lstm" (two state slots) or "gru" (one)
    layer_norm,             \* the blocks have a LayerNormalization
    blocks,                 \* self.blocks: per block its reduction stage (0: None)
    time_reduction_factor,  \* self.time_reduction_factor
    rnn_states,             \* per block, what its rnn layer holds between calls
    sess                    \* per streaming session: frames fed, state, outputs

\* TransducerTrainerGA
VARIABLES
    accumulation_steps,     \* self.config.accumulation_steps
    micro_batch,            \* the number of examples of a batch of the iterator
    encoder_kind,           \* the encoder of self.model
    epoch_batches,          \* the batches an iterator over the data yields
    data_seed,              \* which dataset the iterator reads
    it_pos,                 \* the batches the current iterator has yielded
    ga_pc,                  \* where _train_function stands
    ga_i,                   \* the loop iterations it has completed
    ga_calls,               \* the calls of _train_function so far
    accumulation,           \* self.accumulation.gradients, the buffer
    ga                      \* the current (or last) call: what it has done

\* construction of the Conformer layers from a caller's configuration
VARIABLES
    subsampling_given,      \* the subsampling mapping as the caller wrote it
    encoder_subsampling,    \* the same dict object, as it is now
    built,                  \* the last construction: its arguments and outcome
    n_built                 \* the constructions made from the mapping so far

encVars == <<num_blocks, dropout_on, pe_kind, enc>>
trainVars == <<steps, train_steps_per_epoch, global_batch_size, params, tr,
               last_train>>
strVars == <<constructed, reductions, nlayers, rnn_type, layer_norm, blocks,
             time_reduction_factor, rnn_states, sess>>
buildVars == <<subsampling_given, encoder_subsampling, built, n_built>>
gaVars == <<accumulation_steps, micro_batch, encoder_kind, epoch_batches,
            data_seed, it_pos, ga_pc, ga_i, ga_calls, accumulation, ga>>

\* ------------------------------------------------------------------ bounds
MaxEp == 11
MaxFeat == 1
MaxBlocks == 2
MaxBatch == 2
MaxSteps == 10
MaxLayers == 2
MaxLen == 3
MaxKey == 2
MaxFactor == 3
MaxCtorLayers == 3
MaxK == 3
MaxData == 4
MaxCalls == 3
MaxBuilt == 3

\* ------------------------------------------------------- program constants
\* conformer.py:378  "if w<=float(8)"
AnnealLastEp == 8
\* conformer.py:379  "w=1-(w-1)/7"
AnnealSpan == 7
\* transducer_runners.py:69  "if float(ep)<=8"
LambdaLastEp == 8
\* transducer_runners.py:70  "lambda_=1-float(ep-1)/7"
LambdaSpan == 7

\* --------------------------------------------------------------- rationals
Abs(n) == IF n < 0 THEN -n ELSE n

RECURSIVE GCD(_, _)
GCD(a, b) == IF b = 0 THEN a ELSE GCD(b, a % b)

\* the rational n/d (d # 0) in lowest terms with a positive denominator
Rat(n, d) ==
    LET g == GCD(Abs(n), Abs(d))
        s == IF d < 0 THEN -1 ELSE 1
    IN  [num |-> s * (n \div g), den |-> s * (d \div g)]

RInt(n) == [num |-> n, den |-> 1]
RAdd(a, b) == Rat(a.num * b.den + b.num * a.den, a.den * b.den)
RSub(a, b) == Rat(a.num * b.den - b.num * a.den, a.den * b.den)
RMul(a, b) == Rat(a.num * b.num, a.den * b.den)
RDivInt(a, k) == Rat(a.num, a.den * k)
RLe(a, b) == a.num * b.den <= b.num * a.den

\* ------------------------------------------------------- Conformer encoder

PeKinds == {"sinusoid", "sinusoid_concat", "subsampling"}

\* the Python dict kwargs: a function from the keys present to their values
NoKwargs == [k \in {} |-> 0]
EpKwargs(ep) == [k \in {"ep"} |-> ep]

\* a noise layer that ignores the training flag
GaussianNoiseAlways(x, training, n) == x + n

\* tf.keras.layers.GaussianNoise: called as self.gn(inputs), so Keras hands it
\* the training flag of the enclosing call; it adds noise only when training
GaussianNoise(x, training, n) == IF training THEN x + n ELSE x

\* the subsampling layer and the dense projection: fixed affine maps
ConvSubsampling(x) == 2 * x + 1
Linear(x) == x + 2

\* self.pe: a positional signal that depends on the shape alone, or, for
\* "subsampling", the linear activation of its input
PosEnc(kind, x) == IF kind = "subsampling" THEN x ELSE 1

\* tf.keras.layers.Dropout at rate 1/2: inactive unless training with a
\* positive rate; when active a kept element is scaled by 1/(1-rate)
Dropout(x, training, on, keep) ==
    IF training /\ on THEN (IF keep THEN 2 * x ELSE 0) ELSE x

\* FFModule.call: inputs + fc_factor * ffn(inputs), fc_factor = 1/2, ffn = 2
FFModule(x) == x + (2 \div 2)
\* MHSAModule.call: inputs + attention(inputs, pos)
MHSAModule(x, pos) == x + (x + pos)
\* ConvModule.call: inputs + conv(inputs)
ConvModule(x) == x + 1

\* ConformerBlock.call: ffm1 -> mhsam -> convm -> ffm2 -> ln
ConformerBlock(x, pos) == FFModule(ConvModule(MHSAModule(FFModule(x), pos)))

\* a layer call of ConformerEncoder.call: <<attribute of self, index>>
GnLayer == <<"gn", 0>>
SubsamplingLayer == <<"conv_subsampling", 0>>
LinearLayer == <<"linear", 0>>
PeLayer == <<"pe", 0>>
DoLayer == <<"do", 0>>

\* for cblock in self.conformer_blocks: the blocks in list order
BlocksInOrder(nb) == [i \in 1..nb |-> <<"conformer_blocks", i - 1>>]

\* the first pass: output1 = gn -> conv_subsampling -> linear -> (pe) -> do ->
\* every block
NoisedPass(nb) ==
    <<GnLayer, SubsamplingLayer, LinearLayer, PeLayer, DoLayer>> \o BlocksInOrder(nb)

\* a second pass that goes on through the position encoding and the blocks
CleanPassThroughBlocks(nb) ==
    <<SubsamplingLayer, LinearLayer, PeLayer, DoLayer>> \o BlocksInOrder(nb)

\* the second pass: output2 = conv_subsampling -> linear -> do on the inputs
CleanPass(nb) == <<SubsamplingLayer, LinearLayer, DoLayer>>

\* one layer call on the pass's tensors: st.x the running output, st.pe the
\* positional encoding (self.pe computes st.pe and leaves st.x alone)
RunLayer(layer, st, kind, training, on, n, keep) ==
    IF layer = GnLayer THEN [st EXCEPT !.x = GaussianNoise(st.x, training, n)]
    ELSE IF layer = SubsamplingLayer THEN [st EXCEPT !.x = ConvSubsampling(st.x)]
    ELSE IF layer = LinearLayer THEN [st EXCEPT !.x = Linear(st.x)]
    ELSE IF layer = PeLayer THEN [st EXCEPT !.pe = PosEnc(kind, st.x)]
    ELSE IF layer = DoLayer THEN [st EXCEPT !.x = Dropout(st.x, training, on, keep)]
    ELSE [st EXCEPT !.x = ConformerBlock(st.x, st.pe)]

\* the layer calls of a pass, one after another
RECURSIVE RunPass(_, _, _, _, _, _, _)
RunPass(pass, st, kind, training, on, n, keep) ==
    IF pass = <<>> THEN st
    ELSE RunPass(Tail(pass), RunLayer(Head(pass), st, kind, training, on, n, keep),
                 kind, training, on, n, keep)

\* the annealing weight of ConformerEncoder.call, with 8 and 7 replaced
WSpan8(ep) ==
    IF ep <= AnnealLastEp
    THEN RSub(RInt(1), RDivInt(RInt(ep - 1), AnnealSpan + 1))
    ELSE RInt(0)

\* w=float(ep); if w<=float(8): w=1-(w-1)/7 else: w=float(0)
AnnealW(ep) ==
    IF ep <= AnnealLastEp
    THEN RSub(RInt(1), RDivInt(RInt(ep - 1), AnnealSpan))
    ELSE RInt(0)

\* the blend with the two weights swapped
BlendSwapped(w, output1, output2) ==
    RAdd(RMul(w, RInt(output1)), RMul(RSub(RInt(1), w), RInt(output2)))

\* (1-w)*output1+w*output2
Blend(w, output1, output2) ==
    RAdd(RMul(RSub(RInt(1), w), RInt(output1)), RMul(w, RInt(output2)))

\* the absolute error in place of the squared error
AbsSum(output1, output2) == Abs(output1 - output2)

\* MeanSquaredError(reduction=SUM) of the two outputs
MseSum(output1, output2) == (output1 - output2) * (output1 - output2)

NoRat == RInt(0)

\* ConformerEncoder.call(inputs, training, **kwargs); n, keep1, keep2 are the
\* random draws of the noise layer and of the two dropout calls.  The result
\* also records the layer calls of the two passes, the tensor the noise layer
\* returned and the sample it drew
ConformerEncoderCall(nb, on, kind, inputs, training, kwargs, n, keep1, keep2) ==
    LET pass1   == NoisedPass(nb)
        pass2   == CleanPass(nb)
        start   == [x |-> inputs, pe |-> 0]
        noised  == RunPass(SubSeq(pass1, 1, 1), start, kind, training, on, n, keep1).x
        output1 == RunPass(pass1, start, kind, training, on, n, keep1).x
        output2 == RunPass(pass2, start, kind, training, on, n, keep2).x
    IN  IF "ep" \notin DOMAIN kwargs
        THEN [raised |-> "KeyError", output1 |-> output1, output2 |-> output2,
              w |-> NoRat, blend |-> NoRat, mse_loss |-> 0,
              pass1 |-> pass1, pass2 |-> pass2, noised |-> noised,
              noise_sample |-> n]
        ELSE LET w == AnnealW(kwargs["ep"])
             IN  [raised |-> "none", output1 |-> output1, output2 |-> output2,
                  w |-> w, blend |-> Blend(w, output1, output2),
                  mse_loss |-> MseSum(output1, output2),
                  pass1 |-> pass1, pass2 |-> pass2, noised |-> noised,
                  noise_sample |-> n]

\* what the random layers can draw: a noise sample, and whether dropout keeps
\* the element (it always does at rate 0)
NoiseDraws == {-1, 0, 1}
KeepDraws(on) == IF on THEN BOOLEAN ELSE {TRUE}

NoCall ==
    [called |-> FALSE, ep |-> 0, training |-> FALSE, inputs |-> 0,
     res |-> [raised |-> "none", output1 |-> 0, output2 |-> 0,
              w |-> NoRat, blend |-> NoRat, mse_loss |-> 0,
              pass1 |-> <<>>, pass2 |-> <<>>, noised |-> 0, noise_sample |-> 0]]

\* ConformerEncoder.__init__ has run with a valid configuration
EncInit ==
    /\ num_blocks \in 0..MaxBlocks
    /\ dropout_on \in BOOLEAN
    /\ pe_kind \in PeKinds
    /\ enc = NoCall

\* a caller invokes the encoder with ep in kwargs
EncoderCall ==
    \E ep \in 1..MaxEp, x \in 0..MaxFeat, training \in BOOLEAN,
       n \in NoiseDraws,
       keep1 \in KeepDraws(dropout_on), keep2 \in KeepDraws(dropout_on) :
        /\ ~enc.called
        /\ enc' = [called |-> TRUE, ep |-> ep, training |-> training, inputs |-> x,
                   res |-> ConformerEncoderCall(num_blocks, dropout_on, pe_kind, x,
                                                training, EpKwargs(ep), n, keep1, keep2)]
        /\ UNCHANGED <<num_blocks, dropout_on, pe_kind>>

\* a caller invokes the encoder without ep in kwargs
EncoderCallNoEp ==
    \E x \in 0..MaxFeat, training \in BOOLEAN, n \in NoiseDraws :
        /\ ~enc.called
        /\ enc' = [called |-> TRUE, ep |-> 0, training |-> training, inputs |-> x,
                   res |-> ConformerEncoderCall(num_blocks, dropout_on, pe_kind, x,
                                                training, NoKwargs, n, TRUE, TRUE)]
        /\ UNCHANGED <<num_blocks, dropout_on, pe_kind>>

\* the caller drops the returned tensors: nothing of a call outlives it
EncoderDiscard ==
    /\ enc.called
    /\ enc' = NoCall
    /\ UNCHANGED <<num_blocks, dropout_on, pe_kind>>

\* ------------------------------------------------------------ plain trainer

Labels == {0, 1}
StepsPerEpoch == {1, 2}

\* the batches the data iterator can yield: features and one label per example
Batches(maxBatch) ==
    {[features |-> x, labels |-> l] :
        x \in 0..MaxFeat,
        l \in UNION {[1..m -> Labels] : m \in 1..maxBatch}}

RECURSIVE RSum(_)
RSum(s) == IF s = <<>> THEN RInt(0) ELSE RAdd(Head(s), RSum(Tail(s)))

\* the prediction and joint networks: logits from the encoding
Joint(encoding) == RAdd(encoding, RInt(1))

\* rnnt_loss: one loss per batch example
RnntLoss(logits, labels) ==
    [i \in 1..Len(labels) |-> RAdd(logits, RInt(labels[i]))]

\* tf.nn.compute_average_loss(per_example, global_batch_size)
ComputeAverageLoss(per_example, gbs) == RDivInt(RSum(per_example), gbs)

\* tape.gradient(loss, trainable_variables), linear in the loss
Gradient(loss) == loss

\* optimizer.apply_gradients: one update of the trainable variables
ApplyGradients(p, gradients) == p + 1

\* the epoch index with the "+ 1" dropped
EpochFromZero(s, per_epoch) == s \div per_epoch

\* ep = self.steps // self.train_steps_per_epoch + 1
Epoch(s, per_epoch) == (s \div per_epoch) + 1

\* the auxiliary coefficient computed from the following epoch
LambdaNextEp(ep) ==
    IF ep + 1 <= LambdaLastEp
    THEN RSub(RInt(1), RDivInt(RInt(ep), LambdaSpan))
    ELSE RInt(0)

\* the auxiliary coefficient without the test on ep: it goes on below 0
LambdaNoCutoff(ep) == RSub(RInt(1), RDivInt(RInt(ep - 1), LambdaSpan))

\* lambda_ = 0; if float(ep)<=8: lambda_=1-float(ep-1)/7
Lambda(ep) ==
    IF ep <= LambdaLastEp
    THEN RSub(RInt(1), RDivInt(RInt(ep - 1), LambdaSpan))
    ELSE RInt(0)

\* Transducer.call on the Conformer path: the encoder gets the caller's kwargs,
\* the joint network turns the encoding into logits
TransducerCall(nb, on, kind, features, training, kwargs, n, keep1, keep2) ==
    LET e == ConformerEncoderCall(nb, on, kind, features, training, kwargs,
                                  n, keep1, keep2)
    IN  [raised |-> e.raised, logits |-> Joint(e.blend), mse_loss |-> e.mse_loss,
         encoder |-> e]

\* per_train_loss += lambda_*mse_loss, the scalar broadcast over the examples
AddAuxiliary(per_train_loss, lambda_, mse_loss) ==
    [i \in 1..Len(per_train_loss) |->
        RAdd(per_train_loss[i], RMul(lambda_, RInt(mse_loss)))]

NoStep ==
    [kind |-> "none", ep |-> 0, labels |-> <<>>, primary |-> <<>>,
     mse_loss |-> 0, lambda_ |-> NoRat, train_loss |-> NoRat,
     gradients |-> NoRat, params_before |-> 0]

\* the trainer is compiled with a Conformer of the default dropout rate
\* (encoder_dropout: float = 0)
\* no training step has run yet
NoTrainStep == [ep |-> 0, lambda_ |-> NoRat]

TrainInit ==
    /\ num_blocks \in 0..MaxBlocks
    /\ dropout_on = FALSE
    /\ pe_kind = "sinusoid"
    /\ enc = NoCall
    /\ steps = 0
    /\ train_steps_per_epoch \in StepsPerEpoch
    /\ global_batch_size \in 1..MaxBatch
    /\ params = 0
    /\ tr = NoStep
    /\ last_train = NoTrainStep

\* TransducerTrainer._train_step(batch), followed by the runner's step count
TrainStep ==
    \E batch \in Batches(MaxBatch), n \in NoiseDraws,
       keep1 \in KeepDraws(dropout_on), keep2 \in KeepDraws(dropout_on) :
        LET ep      == Epoch(steps, train_steps_per_epoch)
            out     == TransducerCall(num_blocks, dropout_on, pe_kind,
                                      batch.features, TRUE, EpKwargs(ep),
                                      n, keep1, keep2)
            primary == RnntLoss(out.logits, batch.labels)
            lambda_ == Lambda(ep)
            per     == AddAuxiliary(primary, lambda_, out.mse_loss)
            loss    == ComputeAverageLoss(per, global_batch_size)
            grads   == Gradient(loss)
        IN  /\ tr.kind = "none"
            /\ steps < MaxSteps
            /\ enc' = [called |-> TRUE, ep |-> ep, training |-> TRUE,
                       inputs |-> batch.features, res |-> out.encoder]
            /\ params' = ApplyGradients(params, grads)
            /\ tr' = [kind |-> "train", ep |-> ep, labels |-> batch.labels,
                      primary |-> primary, mse_loss |-> out.mse_loss,
                      lambda_ |-> lambda_, train_loss |-> loss,
                      gradients |-> grads, params_before |-> params]
            /\ steps' = steps + 1
            /\ last_train' = [ep |-> ep, lambda_ |-> lambda_]
            /\ UNCHANGED <<num_blocks, dropout_on, pe_kind,
                           train_steps_per_epoch, global_batch_size>>

\* an eval step that also differentiates its loss and applies the gradients
EvalStepApplying ==
    \E batch \in Batches(MaxBatch) :
        LET ep        == Epoch(steps, train_steps_per_epoch)
            out       == TransducerCall(num_blocks, dropout_on, pe_kind,
                                        batch.features, FALSE, EpKwargs(ep),
                                        0, TRUE, TRUE)
            eval_loss == RnntLoss(out.logits, batch.labels)
            grads     == Gradient(ComputeAverageLoss(eval_loss, global_batch_size))
        IN  /\ tr.kind = "none"
            /\ enc' = [called |-> TRUE, ep |-> ep, training |-> FALSE,
                       inputs |-> batch.features, res |-> out.encoder]
            /\ params' = ApplyGradients(params, grads)
            /\ tr' = [kind |-> "eval", ep |-> ep, labels |-> batch.labels,
                      primary |-> eval_loss, mse_loss |-> 0,
                      lambda_ |-> NoRat, train_loss |-> NoRat,
                      gradients |-> grads, params_before |-> params]
            /\ UNCHANGED <<num_blocks, dropout_on, pe_kind, steps,
                           train_steps_per_epoch, global_batch_size, last_train>>

\* TransducerTrainer._eval_step(batch): ep from the step counter, the model
\* called with training=False and ep in kwargs, element [0] of its result kept,
\* eval_loss = rnnt_loss(logits); no tape, no gradient, no optimizer call, and
\* the runner does not count the step.  With training=False the noise
\* layer and the dropout layers draw nothing (sample 0, every element kept)
EvalStep ==
    \E batch \in Batches(MaxBatch) :
        LET ep        == Epoch(steps, train_steps_per_epoch)
            out       == TransducerCall(num_blocks, dropout_on, pe_kind,
                                        batch.features, FALSE, EpKwargs(ep),
                                        0, TRUE, TRUE)
            eval_loss == RnntLoss(out.logits, batch.labels)
        IN  /\ tr.kind = "none"
            /\ enc' = [called |-> TRUE, ep |-> ep, training |-> FALSE,
                       inputs |-> batch.features, res |-> out.encoder]
            /\ tr' = [kind |-> "eval", ep |-> ep, labels |-> batch.labels,
                      primary |-> eval_loss, mse_loss |-> 0,
                      lambda_ |-> NoRat, train_loss |-> NoRat,
                      gradients |-> NoRat, params_before |-> params]
            /\ UNCHANGED <<num_blocks, dropout_on, pe_kind, steps,
                           train_steps_per_epoch, global_batch_size, params,
                           last_train>>

\* the step returns; its tensors are dropped
StepReturn ==
    /\ tr.kind # "none"
    /\ tr' = NoStep
    /\ enc' = NoCall
    /\ UNCHANGED <<num_blocks, dropout_on, pe_kind, steps,
                   train_steps_per_epoch, global_batch_size, params, last_train>>

\* ---------------------------------------------- streaming transducer encoder
Frames == {0, 1}
RnnTypes == {"lstm", "gru"}
Sessions == {"a", "b"}

\* reductions.get(i, 0)
Get(r, i) == IF i \in DOMAIN r THEN r[i] ELSE 0

\* StreamingTransducerBlock.__init__: a TimeReduction stage when the factor is
\* positive, else None (written 0)
NewBlock(reduction_factor) ==
    [reduction |-> IF reduction_factor > 0 THEN reduction_factor ELSE 0]

\* self.blocks = [StreamingTransducerBlock(reductions.get(i, 0)) for i in range(nlayers)]
BuildBlocks(r, n) == [i \in 1..n |-> NewBlock(Get(r, i - 1))]

\* the loop over the factors with range(nlayers) replaced by the dict's keys
RECURSIVE ProductOfEntries(_, _)
ProductOfEntries(r, keys) ==
    IF keys = {} THEN 1
    ELSE LET k == CHOOSE k \in keys : TRUE
         IN  (IF r[k] > 0 THEN r[k] ELSE 1) * ProductOfEntries(r, keys \ {k})
FactorOverAllEntries(r, n) == ProductOfEntries(r, DOMAIN r)

\* self.time_reduction_factor = 1; for i in range(nlayers): if
\* reductions.get(i, 0) > 0: self.time_reduction_factor *= reduction_factor
RECURSIVE FactorLoop(_, _, _, _)
FactorLoop(r, n, i, acc) ==
    IF i >= n THEN acc
    ELSE FactorLoop(r, n, i + 1, IF Get(r, i) > 0 THEN acc * Get(r, i) ELSE acc)
TimeReductionFactor(r, n) == FactorLoop(r, n, 0, 1)

\* the values of a recurrent state slot and of an encoded frame: 0..CellMod-1
CellMod == 3

RECURSIVE WeightedSum(_, _)
WeightedSum(g, j) ==
    IF j > Len(g) THEN 0 ELSE j * g[j] + WeightedSum(g, j + 1)

\* TimeReduction(factor): pad the time axis with zeros to a multiple of the
\* factor, then merge every `factor` adjacent frames into one
TimeReduction(factor, seq) ==
    LET groups == (Len(seq) + factor - 1) \div factor
        padded == seq \o [j \in 1..(groups * factor - Len(seq)) |-> 0]
    IN  [k \in 1..groups |->
            WeightedSum(SubSeq(padded, (k - 1) * factor + 1, k * factor), 1) % CellMod]

\* get_initial_state of the rnn layer: one zero slot for a GRU, two for an LSTM
ZeroState(type) == IF type = "lstm" THEN <<0, 0>> ELSE <<0>>

\* one step of the recurrent cell of block i: the new state slots; slot 1 is
\* the cell's output
CellStep(type, i, st, x) ==
    IF type = "lstm"
    THEN LET c == (st[2] + x + i) % CellMod
         IN  <<(st[1] + 2 * c) % CellMod, c>>
    ELSE <<(2 * st[1] + x + i) % CellMod>>

\* self.rnn(inputs, initial_state=st) with return_sequences and return_state
RECURSIVE RnnRun(_, _, _, _)
RnnRun(type, i, seq, st) ==
    IF seq = <<>> THEN [outputs |-> <<>>, final |-> st]
    ELSE LET st1  == CellStep(type, i, st, Head(seq))
             rest == RnnRun(type, i, Tail(seq), st1)
         IN  [outputs |-> <<st1[1]>> \o rest.outputs, final |-> rest.final]

\* LayerNormalization and the Dense projection act on each frame alone
LayerNorm(seq) == [t \in 1..Len(seq) |-> (seq[t] + 1) % CellMod]
Projection(seq) == [t \in 1..Len(seq) |-> (2 * seq[t] + 1) % CellMod]

\* StreamingTransducerBlock.call(inputs, training): the rnn starts from zeros
BlockCall(blk, i, type, ln, inputs, training) ==
    LET reduced == IF blk.reduction # 0
                   THEN TimeReduction(blk.reduction, inputs) ELSE inputs
        rnn     == RnnRun(type, i, reduced, ZeroState(type))
        normed  == IF ln THEN LayerNorm(rnn.outputs) ELSE rnn.outputs
    IN  Projection(normed)

\* recognize that hands back the state it was given
BlockRecognizeStale(blk, i, type, ln, inputs, states, held) ==
    LET reduced == IF blk.reduction # 0
                   THEN TimeReduction(blk.reduction, inputs) ELSE inputs
        rnn     == RnnRun(type, i, reduced, states)
        normed  == IF ln THEN LayerNorm(rnn.outputs) ELSE rnn.outputs
    IN  [outputs |-> Projection(normed), new_states |-> states, held |-> held]

\* recognize on a stateful rnn layer: it starts from the state the layer holds
\* and leaves its final state there
BlockRecognizeStateful(blk, i, type, ln, inputs, states, held) ==
    LET reduced == IF blk.reduction # 0
                   THEN TimeReduction(blk.reduction, inputs) ELSE inputs
        rnn     == RnnRun(type, i, reduced, held)
        normed  == IF ln THEN LayerNorm(rnn.outputs) ELSE rnn.outputs
    IN  [outputs |-> Projection(normed), new_states |-> rnn.final,
         held |-> rnn.final]

\* StreamingTransducerBlock.recognize(inputs, states): the outputs, the new
\* state, and what the rnn layer holds afterwards (it is not stateful: unchanged)
BlockRecognize(blk, i, type, ln, inputs, states, held) ==
    LET reduced == IF blk.reduction # 0
                   THEN TimeReduction(blk.reduction, inputs) ELSE inputs
        rnn     == RnnRun(type, i, reduced, states)
        normed  == IF ln THEN LayerNorm(rnn.outputs) ELSE rnn.outputs
    IN  [outputs |-> Projection(normed), new_states |-> rnn.final, held |-> held]

\* Reshape: merge_two_last_dims, a change of shape only
Reshape(inputs) == inputs

\* StreamingTransducerEncoder.get_initial_state()
GetInitialState(blks, type) == [i \in 1..Len(blks) |-> ZeroState(type)]

\* for block in self.blocks: outputs = block(outputs, training=training)
RECURSIVE CallLoop(_, _, _, _, _, _)
CallLoop(blks, i, type, ln, outputs, training) ==
    IF i > Len(blks) THEN outputs
    ELSE CallLoop(blks, i + 1, type, ln,
                  BlockCall(blks[i], i, type, ln, outputs, training), training)

\* StreamingTransducerEncoder.call(inputs, training)
StreamingEncoderCall(blks, type, ln, inputs, training) ==
    CallLoop(blks, 1, type, ln, Reshape(inputs), training)

\* the loop of recognize with every block reading entry 1 of the state
RECURSIVE RecognizeLoopFirstEntry(_, _, _, _, _, _, _, _)
RecognizeLoopFirstEntry(blks, i, type, ln, outputs, states, new_states, held) ==
    IF i > Len(blks)
    THEN [outputs |-> outputs, new_states |-> new_states, held |-> held]
    ELSE LET b == BlockRecognize(blks[i], i, type, ln, outputs, states[1], held[i])
         IN  RecognizeLoopFirstEntry(blks, i + 1, type, ln, b.outputs, states,
                                     Append(new_states, b.new_states),
                                     [held EXCEPT ![i] = b.held])

\* for i, block in enumerate(self.blocks): outputs, block_states =
\* block.recognize(outputs, states=states[i]); new_states.append(block_states)
RECURSIVE RecognizeLoop(_, _, _, _, _, _, _, _)
RecognizeLoop(blks, i, type, ln, outputs, states, new_states, held) ==
    IF i > Len(blks)
    THEN [outputs |-> outputs, new_states |-> new_states, held |-> held]
    ELSE LET b == BlockRecognize(blks[i], i, type, ln, outputs, states[i], held[i])
         IN  RecognizeLoop(blks, i + 1, type, ln, b.outputs, states,
                           Append(new_states, b.new_states),
                           [held EXCEPT ![i] = b.held])

\* StreamingTransducerEncoder.recognize(inputs, states)
StreamingEncoderRecognize(blks, type, ln, inputs, states, held) ==
    RecognizeLoop(blks, 1, type, ln, Reshape(inputs), states, <<>>, held)

\* the reductions dicts a caller may pass: factors for some of the first
\* MaxKey + 1 block indices
Factors == 0..MaxFactor
ReductionDicts ==
    UNION {[keys -> Factors] : keys \in SUBSET (0..MaxKey)}

\* the dicts of the streaming runs: every block 1, the default {0: 3, 1: 2},
\* no entry, and a reduction on the first block only
StreamDicts(n) ==
    {[i \in 0..(n - 1) |-> 1], (0 :> 3) @@ (1 :> 2), [i \in {} |-> 0], (0 :> 2)}

NoSession == [started |-> FALSE, fed |-> <<>>, states |-> <<>>, outputs |-> <<>>]

NotConstructed ==
    /\ constructed = FALSE
    /\ reductions = [i \in {} |-> 0]
    /\ nlayers = 0
    /\ rnn_type = "lstm"
    /\ layer_norm = TRUE
    /\ blocks = <<>>
    /\ time_reduction_factor = 1
    /\ rnn_states = <<>>
    /\ sess = [s \in Sessions |-> NoSession]

\* StreamingTransducerEncoder.__init__(reductions, nlayers, rnn_type, layer_norm)
Construct(r, n, type, ln) ==
    /\ ~constructed
    /\ constructed' = TRUE
    /\ reductions' = r
    /\ nlayers' = n
    /\ rnn_type' = type
    /\ layer_norm' = ln
    /\ blocks' = BuildBlocks(r, n)
    /\ time_reduction_factor' = TimeReductionFactor(r, n)
    /\ rnn_states' = [i \in 1..n |-> ZeroState(type)]
    /\ UNCHANGED sess

\* a caller constructs an encoder from any dict and layer count
ConstructAny ==
    \E r \in ReductionDicts \cup {(0 :> 3) @@ (1 :> 2)},
       n \in (0..MaxCtorLayers) \cup {8} :
        Construct(r, n, "lstm", TRUE)

\* a caller constructs the encoder that the streaming sessions use
ConstructForStreaming ==
    \E n \in 0..MaxLayers, type \in RnnTypes, ln \in BOOLEAN :
        \E r \in StreamDicts(n) : Construct(r, n, type, ln)

\* a session starts from get_initial_state()
SessionStart(s) ==
    /\ constructed
    /\ ~sess[s].started
    /\ sess' = [sess EXCEPT ![s] = [started |-> TRUE, fed |-> <<>>,
                                    states |-> GetInitialState(blocks, rnn_type),
                                    outputs |-> <<>>]]
    /\ UNCHANGED <<constructed, reductions, nlayers, rnn_type, layer_norm,
                   blocks, time_reduction_factor, rnn_states>>

\* encoder_inference on one frame: recognize with the session's state; the
\* session keeps the returned state and appends the outputs
SessionRecognize(s) ==
    \E frame \in Frames :
        LET r == StreamingEncoderRecognize(blocks, rnn_type, layer_norm,
                                           <<frame>>, sess[s].states, rnn_states)
        IN  /\ constructed
            /\ sess[s].started
            /\ Len(sess[s].fed) < MaxLen
            /\ sess' = [sess EXCEPT ![s] = [started |-> TRUE,
                                            fed |-> Append(@.fed, frame),
                                            states |-> r.new_states,
                                            outputs |-> @.outputs \o r.outputs]]
            /\ rnn_states' = r.held
            /\ UNCHANGED <<constructed, reductions, nlayers, rnn_type, layer_norm,
                           blocks, time_reduction_factor>>

\* ------------------------------------------- gradient accumulation trainer
EncoderKinds == {"conformer", "streaming"}

\* batch j of an epoch of the dataset `seed`, with m examples
DatasetBatch(seed, j, m) ==
    [features |-> (seed + j) % (MaxFeat + 1),
     labels |-> [i \in 1..m |-> (seed + i * j) % 2]]

\* GradientAccumulation: a buffer that starts at zero, sums what it is given
\* and is zeroed by reset()
ZeroBuffer == RInt(0)
Accumulate(buffer, gradients) == RAdd(buffer, gradients)
ResetBuffer(buffer) == ZeroBuffer

\* Transducer.call on the streaming path: logits from the last encoded frame,
\* no auxiliary loss
TransducerCallStreaming(blks, type, ln, features, training) ==
    LET e == StreamingEncoderCall(blks, type, ln, <<features>>, training)
    IN  [raised |-> "none", logits |-> Joint(RInt(e[Len(e)])), mse_loss |-> 0]

\* the step with the loss averaged over the microbatch instead
GATrainStepLocalMean(kind, batch, gbs) ==
    LET out == IF kind = "conformer"
               THEN TransducerCall(num_blocks, dropout_on, pe_kind, batch.features,
                                   TRUE, NoKwargs, 0, TRUE, TRUE)
               ELSE TransducerCallStreaming(blocks, rnn_type, layer_norm,
                                            batch.features, TRUE)
        per == RnntLoss(out.logits, batch.labels)
    IN  [ran |-> TRUE, raised |-> out.raised, kwargs |-> NoKwargs, primary |-> per,
         mse_loss |-> out.mse_loss,
         gradients |-> Gradient(ComputeAverageLoss(per, Len(batch.labels)))]

\* TransducerTrainerGA._train_step(batch) up to the gradients: the model is
\* called with four inputs and no kwargs, the loss is the primary loss alone
GATrainStep(kind, batch, gbs) ==
    LET out == IF kind = "conformer"
               THEN TransducerCall(num_blocks, dropout_on, pe_kind, batch.features,
                                   TRUE, NoKwargs, 0, TRUE, TRUE)
               ELSE TransducerCallStreaming(blocks, rnn_type, layer_norm,
                                            batch.features, TRUE)
        per == RnntLoss(out.logits, batch.labels)
    IN  [ran |-> TRUE, raised |-> out.raised, kwargs |-> NoKwargs, primary |-> per,
         mse_loss |-> out.mse_loss,
         gradients |-> Gradient(ComputeAverageLoss(per, gbs))]

NoMicroStep ==
    [ran |-> FALSE, raised |-> "none", kwargs |-> NoKwargs, primary |-> <<>>,
     mse_loss |-> 0, gradients |-> NoRat]

\* a call of _train_function that has not consumed anything yet
NewWindow(buffer, p) ==
    [events |-> <<>>, window |-> <<>>, start |-> buffer, applied |-> NoRat,
     raised |-> "none", returned |-> FALSE, params_before |-> p,
     step |-> NoMicroStep]

\* range(self.config.accumulation_steps) one short
RangeExhaustedEarly(i, n) == i + 1 >= n

\* for _ in range(self.config.accumulation_steps): the loop is over
RangeExhausted(i, n) == i >= n

GAInit ==
    /\ num_blocks = 1 /\ dropout_on = FALSE /\ pe_kind = "sinusoid" /\ enc = NoCall
    /\ steps = 0 /\ train_steps_per_epoch = 1 /\ params = 0 /\ tr = NoStep
    /\ last_train = NoTrainStep
    /\ constructed = TRUE
    /\ reductions = [i \in {} |-> 0]
    /\ nlayers = 1
    /\ rnn_type = "lstm"
    /\ layer_norm = TRUE
    /\ blocks = BuildBlocks(reductions, nlayers)
    /\ time_reduction_factor = TimeReductionFactor(reductions, nlayers)
    /\ rnn_states = [i \in 1..nlayers |-> ZeroState(rnn_type)]
    /\ sess = [s \in Sessions |-> NoSession]
    /\ accumulation_steps \in 1..MaxK
    /\ micro_batch \in 1..MaxBatch
    /\ global_batch_size \in {micro_batch, accumulation_steps * micro_batch}
    /\ encoder_kind \in EncoderKinds
    /\ epoch_batches \in 1..MaxData
    /\ data_seed \in {0, 1}
    /\ it_pos = 0
    /\ ga_pc = "idle"
    /\ ga_i = 0
    /\ ga_calls = 0
    /\ accumulation = ZeroBuffer
    /\ ga = NewWindow(ZeroBuffer, 0)

\* the runner calls _train_function(iterator)
TrainFunctionEnter ==
    /\ ga_pc = "idle"
    /\ ga_calls < MaxCalls
    /\ ga_calls' = ga_calls + 1
    /\ ga_i' = 0
    /\ ga' = NewWindow(accumulation, params)
    /\ ga_pc' = "loop"
    /\ UNCHANGED <<accumulation_steps, micro_batch, encoder_kind, epoch_batches,
                   data_seed, it_pos, accumulation>>
    /\ UNCHANGED <<global_batch_size, params, steps, train_steps_per_epoch, tr, last_train>>

\* the for loop ends: strategy.run(self._apply_gradients) comes next
TrainFunctionLoopEnd ==
    /\ ga_pc = "loop"
    /\ RangeExhausted(ga_i, accumulation_steps)
    /\ ga_pc' = "apply"
    /\ UNCHANGED <<accumulation_steps, micro_batch, encoder_kind, epoch_batches,
                   data_seed, it_pos, accumulation, ga_i, ga_calls, ga>>
    /\ UNCHANGED <<global_batch_size, params, steps, train_steps_per_epoch, tr, last_train>>

\* a _train_function that resets the buffer when the iterator runs out
TrainFunctionExhaustedClearing ==
    /\ ga_pc = "loop"
    /\ ~RangeExhausted(ga_i, accumulation_steps)
    /\ it_pos = epoch_batches
    /\ ga' = [ga EXCEPT !.raised = "StopIteration"]
    /\ ga_pc' = "idle"
    /\ it_pos' = 0
    /\ accumulation' = ResetBuffer(accumulation)
    /\ UNCHANGED <<accumulation_steps, micro_batch, encoder_kind, epoch_batches,
                   data_seed, ga_i, ga_calls>>
    /\ UNCHANGED <<global_batch_size, params, steps, train_steps_per_epoch, tr, last_train>>

\* batch = next(iterator) on an iterator with no batch left: the exception
\* leaves _train_function; the runner ends the epoch and the next call gets a
\* new iterator
TrainFunctionExhausted ==
    /\ ga_pc = "loop"
    /\ ~RangeExhausted(ga_i, accumulation_steps)
    /\ it_pos = epoch_batches
    /\ ga' = [ga EXCEPT !.raised = "StopIteration"]
    /\ ga_pc' = "idle"
    /\ it_pos' = 0
    /\ UNCHANGED <<accumulation_steps, micro_batch, encoder_kind, epoch_batches,
                   data_seed, accumulation, ga_i, ga_calls>>
    /\ UNCHANGED <<global_batch_size, params, steps, train_steps_per_epoch, tr, last_train>>

\* one loop iteration: batch = next(iterator); strategy.run(self._train_step):
\* the gradients are accumulated, or the step's exception leaves _train_function
TrainFunctionMicrobatch ==
    /\ ga_pc = "loop"
    /\ ~RangeExhausted(ga_i, accumulation_steps)
    /\ it_pos < epoch_batches
    /\ it_pos' = it_pos + 1
    /\ LET st == GATrainStep(encoder_kind,
                             DatasetBatch(data_seed, it_pos, micro_batch),
                             global_batch_size)
       IN  IF st.raised # "none"
           THEN /\ ga' = [ga EXCEPT !.raised = st.raised, !.step = st]
                /\ ga_pc' = "idle"
                /\ UNCHANGED <<accumulation, ga_i>>
           ELSE /\ accumulation' = Accumulate(accumulation, st.gradients)
                /\ ga' = [ga EXCEPT !.events = Append(@, "accumulate"),
                                    !.window = Append(@, st.primary),
                                    !.step = st]
                /\ ga_i' = ga_i + 1
                /\ ga_pc' = "loop"
    /\ UNCHANGED <<accumulation_steps, micro_batch, encoder_kind, epoch_batches,
                   data_seed, ga_calls>>
    /\ UNCHANGED <<global_batch_size, params, steps, train_steps_per_epoch, tr, last_train>>

\* _apply_gradients, first statement: optimizer.apply_gradients(buffer)
ApplyAccumulated ==
    /\ ga_pc = "apply"
    /\ params' = ApplyGradients(params, accumulation)
    /\ ga' = [ga EXCEPT !.events = Append(@, "apply"), !.applied = accumulation]
    /\ ga_pc' = "reset"
    /\ UNCHANGED <<accumulation_steps, micro_batch, encoder_kind, epoch_batches,
                   data_seed, it_pos, accumulation, ga_i, ga_calls>>
    /\ UNCHANGED <<global_batch_size, steps, train_steps_per_epoch, tr, last_train>>

\* _apply_gradients, second statement: self.accumulation.reset(); then
\* _train_function returns and the runner counts the step
ResetAccumulated ==
    /\ ga_pc = "reset"
    /\ accumulation' = ResetBuffer(accumulation)
    /\ ga' = [ga EXCEPT !.events = Append(@, "reset"), !.returned = TRUE]
    /\ ga_pc' = "idle"
    /\ steps' = steps + 1
    /\ UNCHANGED <<accumulation_steps, micro_batch, encoder_kind, epoch_batches,
                   data_seed, it_pos, ga_i, ga_calls>>
    /\ UNCHANGED <<global_batch_size, params, train_steps_per_epoch, tr, last_train>>

GAIdle ==
    /\ accumulation_steps = 1
    /\ micro_batch = 1
    /\ encoder_kind = "conformer"
    /\ epoch_batches = 1
    /\ data_seed = 0
    /\ it_pos = 0
    /\ ga_pc = "idle"
    /\ ga_i = 0
    /\ ga_calls = 0
    /\ accumulation = ZeroBuffer
    /\ ga = NewWindow(ZeroBuffer, 0)

\* ------------------------------------------- construction of the Conformer
SubsamplingKinds == {"vgg", "conv2d"}
MhaTypes == {"relmha", "mha"}

\* what a caller may pass: the known kinds and one that is not known
SubsamplingArgs == SubsamplingKinds \cup {"other"}
MhaArgs == MhaTypes \cup {"other"}
PeArgs == PeKinds \cup {"other"}

\* the subsampling mappings a caller may write: with or without "type", with
\* or without a "filters" entry for the subsampling layer
SubsamplingMappings ==
    UNION {[keys -> SubsamplingArgs \cup {"144"}] : keys \in SUBSET {"type", "filters"}}

ValidMappings ==
    {d \in SubsamplingMappings :
        /\ ("type" \in DOMAIN d => d["type"] \in SubsamplingArgs)
        /\ ("filters" \in DOMAIN d => d["filters"] = "144")}

\* dict.pop(key, default): the value (or the default) and the dict afterwards
Pop(d, key, default) ==
    [value |-> IF key \in DOMAIN d THEN d[key] ELSE default,
     dict  |-> [k \in (DOMAIN d) \ {key} |-> d[k]]]

\* MHSAModule.__init__(mha_type)
MHSAModuleInit(mha_type) ==
    IF mha_type = "relmha"
    THEN [raised |-> "none", mha |-> "RelPositionMultiHeadAttention"]
    ELSE IF mha_type = "mha"
    THEN [raised |-> "none", mha |-> "MultiHeadAttention"]
    ELSE [raised |-> "ValueError", mha |-> "none"]

\* ConformerBlock.__init__(mha_type): ffm1, then mhsam, whose error leaves the
\* constructor, then convm, ffm2, ln
ConformerBlockInit(mha_type) ==
    LET mhsam == MHSAModuleInit(mha_type)
    IN  [raised |-> mhsam.raised, mhsam |-> mhsam.mha]

\* for i in range(num_blocks): conformer_block = ConformerBlock(mha_type=mha_type);
\* self.conformer_blocks.append(conformer_block)
RECURSIVE BlocksInit(_, _, _)
BlocksInit(num, mha_type, i) ==
    IF i >= num THEN [raised |-> "none", conformer_blocks |-> i]
    ELSE IF ConformerBlockInit(mha_type).raised # "none"
    THEN [raised |-> ConformerBlockInit(mha_type).raised, conformer_blocks |-> i]
    ELSE BlocksInit(num, mha_type, i + 1)

\* ConformerEncoder.__init__(subsampling, positional_encoding, num_blocks,
\* mha_type): the outcome, and the caller's dict after subsampling.pop
ConformerEncoderInit(subsampling, positional_encoding, num, mha_type) ==
    LET popped == Pop(subsampling, "type", "conv2d")
        subsampling_name == popped.value
        subsampling_class ==
            IF subsampling_name = "vgg" THEN "VggSubsampling"
            ELSE IF subsampling_name = "conv2d" THEN "Conv2dSubsampling"
            ELSE "none"
        pe == IF positional_encoding = "sinusoid" THEN "PositionalEncoding"
              ELSE IF positional_encoding = "sinusoid_concat"
              THEN "PositionalEncodingConcat"
              ELSE IF positional_encoding = "subsampling" THEN "Activation"
              ELSE "none"
        blks == BlocksInit(num, mha_type, 0)
    IN  IF subsampling_class = "none"
        THEN [raised |-> "ValueError", at |-> "subsampling",
              subsampling |-> popped.dict, conv_subsampling |-> "none",
              pe |-> "none", conformer_blocks |-> 0]
        ELSE IF pe = "none"
        THEN [raised |-> "ValueError", at |-> "positional_encoding",
              subsampling |-> popped.dict, conv_subsampling |-> subsampling_class,
              pe |-> "none", conformer_blocks |-> 0]
        ELSE IF blks.raised # "none"
        THEN [raised |-> blks.raised, at |-> "mha_type",
              subsampling |-> popped.dict, conv_subsampling |-> subsampling_class,
              pe |-> pe, conformer_blocks |-> blks.conformer_blocks]
        ELSE [raised |-> "none", at |-> "none",
              subsampling |-> popped.dict, conv_subsampling |-> subsampling_class,
              pe |-> pe, conformer_blocks |-> blks.conformer_blocks]

\* Conformer.__init__: encoder=ConformerEncoder(subsampling=encoder_subsampling,
\* ...), built from the caller's dict itself
ConformerInit(subsampling, positional_encoding, num, mha_type) ==
    ConformerEncoderInit(subsampling, positional_encoding, num, mha_type)

NothingBuilt ==
    [cls |-> "none", mha_type |-> "relmha", positional_encoding |-> "sinusoid",
     num_blocks |-> 0, passed |-> [k \in {} |-> "none"], raised |-> "none",
     at |-> "none", conv_subsampling |-> "none", pe |-> "none",
     conformer_blocks |-> 0]

BuildIdle ==
    /\ subsampling_given = [k \in {} |-> "none"]
    /\ encoder_subsampling = subsampling_given
    /\ built = NothingBuilt
    /\ n_built = 0

\* a caller has written a subsampling mapping and constructed nothing yet
BuildInit ==
    /\ subsampling_given \in ValidMappings
    /\ encoder_subsampling = subsampling_given
    /\ built = NothingBuilt
    /\ n_built = 0

\* a caller constructs an MHSAModule
ConstructMHSAModule ==
    \E mha_type \in MhaArgs :
        LET r == MHSAModuleInit(mha_type)
        IN  /\ n_built < MaxBuilt
            /\ n_built' = n_built + 1
            /\ built' = [NothingBuilt EXCEPT !.cls = "MHSAModule",
                                             !.mha_type = mha_type,
                                             !.raised = r.raised,
                                             !.at = IF r.raised = "none"
                                                    THEN "none" ELSE "mha_type"]
            /\ UNCHANGED <<subsampling_given, encoder_subsampling>>

\* a caller constructs a ConformerBlock
ConstructConformerBlock ==
    \E mha_type \in MhaArgs :
        LET r == ConformerBlockInit(mha_type)
        IN  /\ n_built < MaxBuilt
            /\ n_built' = n_built + 1
            /\ built' = [NothingBuilt EXCEPT !.cls = "ConformerBlock",
                                             !.mha_type = mha_type,
                                             !.raised = r.raised,
                                             !.at = IF r.raised = "none"
                                                    THEN "none" ELSE "mha_type"]
            /\ UNCHANGED <<subsampling_given, encoder_subsampling>>

\* a caller constructs a ConformerEncoder from its subsampling mapping
ConstructConformerEncoder ==
    \E positional_encoding \in PeArgs, num \in 0..MaxBlocks, mha_type \in MhaArgs :
        LET r == ConformerEncoderInit(encoder_subsampling, positional_encoding,
                                      num, mha_type)
        IN  /\ n_built < MaxBuilt
            /\ n_built' = n_built + 1
            /\ built' = [cls |-> "ConformerEncoder", mha_type |-> mha_type,
                         positional_encoding |-> positional_encoding,
                         num_blocks |-> num, passed |-> encoder_subsampling,
                         raised |-> r.raised, at |-> r.at,
                         conv_subsampling |-> r.conv_subsampling, pe |-> r.pe,
                         conformer_blocks |-> r.conformer_blocks]
            /\ encoder_subsampling' = r.subsampling
            /\ UNCHANGED subsampling_given

\* a caller constructs a Conformer model from its subsampling mapping
ConstructConformer ==
    \E positional_encoding \in PeArgs, num \in 0..MaxBlocks, mha_type \in MhaArgs :
        LET r == ConformerInit(encoder_subsampling, positional_encoding,
                               num, mha_type)
        IN  /\ n_built < MaxBuilt
            /\ n_built' = n_built + 1
            /\ built' = [cls |-> "Conformer", mha_type |-> mha_type,
                         positional_encoding |-> positional_encoding,
                         num_blocks |-> num, passed |-> encoder_subsampling,
                         raised |-> r.raised, at |-> r.at,
                         conv_subsampling |-> r.conv_subsampling, pe |-> r.pe,
                         conformer_blocks |-> r.conformer_blocks]
            /\ encoder_subsampling' = r.subsampling
            /\ UNCHANGED subsampling_given

\* -------------------------------------------------------- specifications
TrainIdle ==
    /\ steps = 0
    /\ train_steps_per_epoch = 1
    /\ global_batch_size = 1
    /\ params = 0
    /\ tr = NoStep
    /\ last_train = NoTrainStep

EncIdle ==
    /\ num_blocks = 0
    /\ dropout_on = FALSE
    /\ pe_kind = "sinusoid"
    /\ enc = NoCall

vars == <<encVars, trainVars, strVars, gaVars, buildVars>>

\* the Conformer encoder called on its own
EncNext ==
    \/ EncoderCall /\ UNCHANGED <<trainVars, strVars, gaVars, buildVars>>
    \/ EncoderCallNoEp /\ UNCHANGED <<trainVars, strVars, gaVars, buildVars>>
    \/ EncoderDiscard /\ UNCHANGED <<trainVars, strVars, gaVars, buildVars>>

InitEncoder == EncInit /\ TrainIdle /\ NotConstructed /\ GAIdle /\ BuildIdle

SpecEncoder == InitEncoder /\ [][EncNext]_vars

\* the plain trainer on a Conformer transducer
TrainNext ==
    \/ TrainStep /\ UNCHANGED <<strVars, gaVars, buildVars>>
    \/ EvalStep /\ UNCHANGED <<strVars, gaVars, buildVars>>
    \/ StepReturn /\ UNCHANGED <<strVars, gaVars, buildVars>>

InitTrain == TrainInit /\ NotConstructed /\ GAIdle /\ BuildIdle

SpecTrain == InitTrain /\ [][TrainNext]_vars

\* two streaming sessions on one streaming encoder
StreamNext ==
    \/ ConstructForStreaming /\ UNCHANGED <<encVars, trainVars, gaVars, buildVars>>
    \/ \E s \in Sessions : SessionStart(s) /\ UNCHANGED <<encVars, trainVars, gaVars, buildVars>>
    \/ \E s \in Sessions : SessionRecognize(s) /\ UNCHANGED <<encVars, trainVars, gaVars, buildVars>>

InitStream == EncIdle /\ TrainIdle /\ NotConstructed /\ GAIdle /\ BuildIdle

SpecStream == InitStream /\ [][StreamNext]_vars

\* construction of streaming encoders
ConstructNext == ConstructAny /\ UNCHANGED <<encVars, trainVars, gaVars, buildVars>>

InitConstruct == EncIdle /\ TrainIdle /\ NotConstructed /\ GAIdle /\ BuildIdle

SpecConstruct == InitConstruct /\ [][ConstructNext]_vars

\* the gradient accumulation trainer
GANext ==
    \/ TrainFunctionEnter /\ UNCHANGED <<encVars, strVars, buildVars>>
    \/ TrainFunctionMicrobatch /\ UNCHANGED <<encVars, strVars, buildVars>>
    \/ TrainFunctionExhausted /\ UNCHANGED <<encVars, strVars, buildVars>>
    \/ TrainFunctionLoopEnd /\ UNCHANGED <<encVars, strVars, buildVars>>
    \/ ApplyAccumulated /\ UNCHANGED <<encVars, strVars, buildVars>>
    \/ ResetAccumulated /\ UNCHANGED <<encVars, strVars, buildVars>>

InitGA == GAInit /\ BuildIdle

SpecGA == InitGA /\ [][GANext]_vars

\* construction of MHSA modules, Conformer blocks, encoders and models
BuildNext ==
    \/ ConstructMHSAModule /\ UNCHANGED <<encVars, trainVars, strVars, gaVars>>
    \/ ConstructConformerBlock /\ UNCHANGED <<encVars, trainVars, strVars, gaVars>>
    \/ ConstructConformerEncoder /\ UNCHANGED <<encVars, trainVars, strVars, gaVars>>
    \/ ConstructConformer /\ UNCHANGED <<encVars, trainVars, strVars, gaVars>>

InitBuild == EncIdle /\ TrainIdle /\ NotConstructed /\ GAIdle /\ BuildInit

SpecBuild == InitBuild /\ [][BuildNext]_vars

\* ------------------------------------------------------------------ claims
\* the weight ConformerEncoder.call computes when it is handed ep
EncoderWeight(ep) ==
    ConformerEncoderCall(num_blocks, dropout_on, pe_kind, 0, FALSE, EpKwargs(ep),
                         0, TRUE, TRUE).w

EncReturned == enc.called /\ enc.res.raised = "none"

\* C1 as stated: for every positive ep the annealing weight w lies in [0,1],
\* w(1) = 1, w(8) = 1/7, w(ep) = 0 for ep >= 9, and w(ep+1) <= w(ep).
C1_AsStated ==
    EncReturned =>
        /\ RLe(RInt(0), enc.res.w) /\ RLe(enc.res.w, RInt(1))
        /\ (enc.ep = 1 => enc.res.w = RInt(1))
        /\ (enc.ep = 8 => enc.res.w = Rat(1, 7))
        /\ (enc.ep >= 9 => enc.res.w = RInt(0))
        /\ RLe(EncoderWeight(enc.ep + 1), enc.res.w)

\* C1 amended: for every positive ep the annealing weight w lies in [0,1],
\* w(1) = 1, w(7) = 1/7, w(ep) = 0 for every ep >= 8 (so w(8) = 0), and
\* w(ep+1) <= w(ep).
C1_AnnealingWeight ==
    EncReturned =>
        /\ RLe(RInt(0), enc.res.w) /\ RLe(enc.res.w, RInt(1))
        /\ (enc.ep = 1 => enc.res.w = RInt(1))
        /\ (enc.ep = 7 => enc.res.w = Rat(1, 7))
        /\ (enc.ep >= 8 => enc.res.w = RInt(0))
        /\ RLe(EncoderWeight(enc.ep + 1), enc.res.w)

\* a call with ep = 8 has returned
C1_Witness == EncReturned /\ enc.ep = 8

\* the weight of the spec's formula, in sevenths
SpecWeight7(ep) == IF ep <= 8 THEN 7 - (ep - 1) ELSE 0

\* C2: the call returns ((1-w)*output_noised + w*output_clean, auxiliary_loss)
\* with w taken from ep; for ep = 1 the encoding is output_clean exactly and for
\* every ep >= 9 it is output_noised exactly.
C2_BlendedReturn ==
    EncReturned =>
        /\ 7 * enc.res.blend.num =
             ((7 - SpecWeight7(enc.ep)) * enc.res.output1
               + SpecWeight7(enc.ep) * enc.res.output2) * enc.res.blend.den
        /\ enc.res.mse_loss = MseSum(enc.res.output1, enc.res.output2)
        /\ (enc.ep = 1 => enc.res.blend = RInt(enc.res.output2))
        /\ (enc.ep >= 9 => enc.res.blend = RInt(enc.res.output1))

\* a call with ep = 1 whose two branches differ (the block stack is not empty)
C2_Witness ==
    /\ EncReturned /\ enc.ep = 1 /\ num_blocks > 0
    /\ enc.res.output1 # enc.res.output2
    /\ enc.res.blend = RInt(enc.res.output2)

\* the differentiated loss of the spec: the sum over the examples of
\* primary_i + lambda * auxiliary_loss, over the global batch size
SpecTrainLoss(primary, ep, aux, gbs) ==
    RDivInt(RSum([i \in 1..Len(primary) |->
                     RAdd(primary[i], RMul(Rat(SpecWeight7(ep), 7), RInt(aux)))]),
            gbs)

\* C3: in TransducerTrainer._train_step the differentiated loss is the sum over
\* the examples of (primary_i + lambda(ep) * auxiliary_loss) over the global
\* batch size, and lambda(ep) is the weight w(ep) the encoder used in the
\* forward pass of the same step.
C3_TrainLoss ==
    tr.kind = "train" =>
        /\ tr.train_loss =
             SpecTrainLoss(tr.primary, tr.ep, tr.mse_loss, global_batch_size)
        /\ tr.gradients = Gradient(tr.train_loss)
        /\ tr.lambda_ = Rat(SpecWeight7(tr.ep), 7)
        /\ enc.called /\ enc.ep = tr.ep
        /\ tr.lambda_ = enc.res.w
        /\ tr.mse_loss = enc.res.mse_loss

\* a step in the decay with two examples and a non-zero auxiliary loss
C3_Witness ==
    /\ tr.kind = "train" /\ tr.ep \in 2..7 /\ tr.mse_loss > 0
    /\ Len(tr.labels) = 2 /\ global_batch_size = 2

\* every block of the constructed encoder has reduction factor 1
AllFactorOne ==
    constructed /\ \A i \in 1..nlayers : blocks[i].reduction = 1

\* C7: with reduction factor 1 on every block, recognize called once per frame
\* from get_initial_state(), each call given the state the one before returned,
\* yields concatenated outputs equal to one forward call (training=False) over
\* the whole sequence, for every length >= 1 and every number of blocks.
C7_StreamingEqualsForward ==
    \A s \in Sessions :
        (AllFactorOne /\ sess[s].started /\ Len(sess[s].fed) >= 1) =>
            sess[s].outputs =
                StreamingEncoderCall(blocks, rnn_type, layer_norm, sess[s].fed, FALSE)

\* a session of two blocks of factor 1 has consumed a full-length sequence
C7_Witness ==
    /\ AllFactorOne /\ nlayers = 2
    /\ sess["a"].started /\ Len(sess["a"].fed) = MaxLen
    /\ sess["a"].fed[1] = 1

\* a session run on its own: recognize on each frame of fed in turn, from
\* get_initial_state() and from an rnn layer that holds nothing
RECURSIVE Alone(_, _, _, _)
Alone(fed, states, held, outputs) ==
    IF fed = <<>> THEN [states |-> states, outputs |-> outputs]
    ELSE LET r == StreamingEncoderRecognize(blocks, rnn_type, layer_norm,
                                            <<Head(fed)>>, states, held)
         IN  Alone(Tail(fed), r.new_states, r.held, outputs \o r.outputs)

RunAlone(fed) ==
    Alone(fed, GetInitialState(blocks, rnn_type),
          [i \in 1..nlayers |-> ZeroState(rnn_type)], <<>>)

\* C8: recognize keeps no recurrent state inside the encoder and its result
\* depends on (inputs, states, parameters) only: under every interleaving of
\* the recognize calls of two sessions, each session has exactly the outputs
\* and the state it would have if it ran alone.
C8_SessionsIndependent ==
    constructed =>
        /\ rnn_states = [i \in 1..nlayers |-> ZeroState(rnn_type)]
        /\ \A s \in Sessions :
            sess[s].started =>
                /\ sess[s].outputs = RunAlone(sess[s].fed).outputs
                /\ sess[s].states = RunAlone(sess[s].fed).states

\* both sessions have made calls on different frames
C8_Witness ==
    /\ nlayers = 2
    /\ sess["a"].started /\ sess["a"].fed = <<1, 0>>
    /\ sess["b"].started /\ sess["b"].fed = <<0, 1, 1>>

\* block i taken on its own over the calls of a session: the inputs it gets
\* call by call are the outputs of block i-1 (the frames, for the first block)
RECURSIVE LayerRun(_, _, _, _)
LayerRun(i, calls, st, outs) ==
    IF calls = <<>> THEN [final |-> st, outs |-> outs]
    ELSE LET b == BlockRecognize(blocks[i], i, rnn_type, layer_norm,
                                 Head(calls), st, ZeroState(rnn_type))
         IN  LayerRun(i, Tail(calls), b.new_states, Append(outs, b.outputs))

RECURSIVE LayerTrace(_, _)
LayerTrace(i, fed) ==
    LayerRun(i,
             IF i = 1 THEN [k \in 1..Len(fed) |-> <<fed[k]>>]
                      ELSE LayerTrace(i - 1, fed).outs,
             ZeroState(rnn_type), <<>>)

\* C9: get_initial_state() returns an all-zero state with one entry per block;
\* recognize returns a state with the same number of entries and the same
\* shape, whose entry i is produced by block i from entry i of the state given.
C9_StateShape ==
    \A s \in Sessions :
        (constructed /\ sess[s].started) =>
            /\ Len(sess[s].states) = nlayers
            /\ \A i \in 1..nlayers :
                /\ Len(sess[s].states[i]) = Len(ZeroState(rnn_type))
                /\ sess[s].states[i] = LayerTrace(i, sess[s].fed).final
            /\ (sess[s].fed = <<>> =>
                    \A i \in 1..nlayers : \A k \in 1..Len(sess[s].states[i]) :
                        sess[s].states[i][k] = 0)

\* a two-block session whose state has been threaded through MaxLen calls and
\* whose two entries differ
C9_Witness ==
    /\ constructed /\ nlayers = 2
    /\ sess["a"].started /\ Len(sess["a"].fed) = MaxLen
    /\ sess["a"].states[1] # sess["a"].states[2]

\* the product of the reduction factors of the blocks built with a reduction
RECURSIVE ProductOfBlocks(_, _)
ProductOfBlocks(blks, i) ==
    IF i > Len(blks) THEN 1
    ELSE (IF blks[i].reduction # 0 THEN blks[i].reduction ELSE 1)
         * ProductOfBlocks(blks, i + 1)

\* the product over the block indices of the factor, 0 or no entry counting 1
RECURSIVE ProductOfFactors(_, _)
ProductOfFactors(r, n) ==
    IF n = 0 THEN 1
    ELSE ProductOfFactors(r, n - 1)
         * (IF (n - 1) \notin DOMAIN r \/ r[n - 1] = 0 THEN 1 ELSE r[n - 1])

\* C10: time_reduction_factor is the product over the block indices
\* 0..nlayers-1 of the block's factor, a factor of 0 or a missing entry counting
\* as 1; it is the product of the factors of exactly the blocks built with a
\* time-reduction stage; entries of index >= nlayers are ignored; and for
\* {0: 3, 1: 2} with 8 layers it is 6.
C10_TimeReductionFactor ==
    constructed =>
        /\ time_reduction_factor = ProductOfFactors(reductions, nlayers)
        /\ time_reduction_factor = ProductOfBlocks(blocks, 1)
        /\ Len(blocks) = nlayers
        /\ ((reductions = (0 :> 3) @@ (1 :> 2) /\ nlayers = 8)
                => time_reduction_factor = 6)

\* the default dict with 8 layers
C10_Witness ==
    /\ constructed /\ reductions = (0 :> 3) @@ (1 :> 2) /\ nlayers = 8
    /\ time_reduction_factor = 6

\* C4 as stated: the microbatch step of TransducerTrainerGA hands the current
\* epoch index ep to the model and, on the Conformer path, gets (logits,
\* auxiliary_loss) back and accumulates the gradient of the global-batch
\* average of primary_loss + lambda(ep) * auxiliary_loss.
C4_AsStated ==
    ga.step.ran =>
        /\ "ep" \in DOMAIN ga.step.kwargs
        /\ ga.step.kwargs["ep"] = Epoch(steps, train_steps_per_epoch)
        /\ ga.step.raised = "none"
        /\ ga.events # <<>>
        /\ ga.events[Len(ga.events)] = "accumulate"
        /\ (encoder_kind = "conformer" =>
              ga.step.gradients =
                 Gradient(SpecTrainLoss(ga.step.primary,
                                        Epoch(steps, train_steps_per_epoch),
                                        ga.step.mse_loss, global_batch_size)))

\* the events of a complete window of k microbatches
FullWindow(k) == [j \in 1..k |-> "accumulate"] \o <<"apply", "reset">>

\* C5: within a call of _train_function the events come in the order: K
\* accumulates one after another, then one optimizer apply, then one reset;
\* the buffer is not applied before all K microbatches have accumulated,
\* nothing accumulates between the apply and the reset, and the parameters
\* change exactly once in a window (a call that an exception leaves stops
\* inside the accumulates and changes no parameter).
C5_WindowOrder ==
    /\ Len(ga.events) <= accumulation_steps + 2
    /\ ga.events = SubSeq(FullWindow(accumulation_steps), 1, Len(ga.events))
    /\ Len(ga.window) = ga_i
    /\ ga_i <= accumulation_steps
    /\ (ga.returned =>
            /\ ga.events = FullWindow(accumulation_steps)
            /\ params = ga.params_before + 1)
    /\ (ga_pc = "apply" => ga_i = accumulation_steps)
    /\ (ga_pc = "reset" =>
            /\ Len(ga.events) = accumulation_steps + 1
            /\ params = ga.params_before + 1
            /\ ~ENABLED TrainFunctionMicrobatch)
    /\ ((ga_pc \in {"loop", "apply"} \/ (ga_pc = "idle" /\ ~ga.returned)) =>
            /\ params = ga.params_before
            /\ Len(ga.events) <= accumulation_steps
            /\ Len(ga.events) = ga_i)

\* a later window of three microbatches has been applied and reset
C5_Witness ==
    /\ ga.returned /\ accumulation_steps = 3 /\ ga_calls = 3
    /\ ga.events = FullWindow(3)

RECURSIVE Flatten(_)
Flatten(ss) == IF ss = <<>> THEN <<>> ELSE Head(ss) \o Flatten(Tail(ss))

\* C6: with the buffer at zero when the window starts, the gradient applied
\* after K microbatches is the plain sum of the K microbatch gradients, each
\* divided by the global batch size and not by K; with global batch size =
\* K * microbatch size it is the gradient of one direct step on the
\* concatenated batch.
C6_AppliedIsSum ==
    (Len(ga.events) > accumulation_steps /\ ga.start = ZeroBuffer) =>
        /\ Len(ga.window) = accumulation_steps
        /\ ga.applied =
             RSum([k \in 1..Len(ga.window) |->
                      Gradient(ComputeAverageLoss(ga.window[k], global_batch_size))])
        /\ (global_batch_size = accumulation_steps * micro_batch =>
              /\ ga.applied =
                   Gradient(ComputeAverageLoss(Flatten(ga.window), global_batch_size))
              /\ ga.applied =
                   Gradient(RDivInt(RSum(Flatten(ga.window)),
                                    Len(Flatten(ga.window)))))

\* three microbatches of two examples have been summed and applied
C6_Witness ==
    /\ Len(ga.events) > accumulation_steps /\ ga.start = ZeroBuffer
    /\ accumulation_steps = 3 /\ micro_batch = 2 /\ global_batch_size = 6
    /\ ga.applied # ZeroBuffer
    /\ ga.window[1] # ga.window[2]

\* C11: an eval step leaves every model parameter, the optimizer state and the
\* accumulation buffer unchanged: it runs the forward pass with training=False
\* and the primary transducer loss only, computes no gradient and calls no
\* optimizer apply; across any sequence of train and eval steps the parameters
\* change only inside the optimizer apply of a train step.
C11_EvalFrame ==
    [][/\ (tr.kind = "none" /\ tr'.kind = "eval") =>
              /\ params' = params
              /\ accumulation' = accumulation
              /\ enc'.called /\ enc'.training = FALSE
              /\ tr'.primary = RnntLoss(Joint(enc'.res.blend), tr'.labels)
              /\ tr'.gradients = NoRat
              /\ tr'.lambda_ = NoRat
       /\ (params' # params =>
              /\ tr.kind = "none" /\ tr'.kind = "train"
              /\ params' = ApplyGradients(params, tr'.gradients))]_vars

\* an eval step taken after two train steps, inside the decay of w
C11_Witness ==
    /\ tr.kind = "eval" /\ params = 2 /\ tr.params_before = 2
    /\ tr.ep = 2 /\ Len(tr.labels) = 2 /\ num_blocks > 0

\* C12 as stated: constructing an MHSAModule, a ConformerBlock or a
\* ConformerEncoder with an mha_type other than 'relmha' or 'mha' raises a
\* configuration error before the object is returned, for every value of the
\* other constructor arguments, num_blocks = 0 included.
C12_AsStated ==
    (built.cls # "none" /\ built.mha_type \notin MhaTypes) =>
        built.raised = "ValueError"

\* the subsampling class the mapping names
ClassOf(kind) == IF kind = "vgg" THEN "VggSubsampling" ELSE "Conv2dSubsampling"

\* C13 as stated: ConformerEncoder construction never silently defaults a
\* configuration choice: a subsampling kind that is not one of the known kinds
\* or is not given at all, and a positional-encoding kind that is not one of
\* the known kinds, each make the constructor fail with an error.
C13_AsStated ==
    (/\ built.cls = "ConformerEncoder"
     /\ \/ "type" \notin DOMAIN built.passed
        \/ built.passed["type"] \notin SubsamplingKinds
        \/ built.positional_encoding \notin PeKinds)
    => (built.raised = "ValueError" /\ built.conv_subsampling = "none")

\* C18 as stated: constructing a ConformerEncoder or a Conformer leaves the
\* caller's subsampling mapping unchanged, so every encoder constructed from
\* the same mapping gets the subsampling kind the mapping names.
C18_AsStated ==
    built.cls \in {"ConformerEncoder", "Conformer"} =>
        /\ encoder_subsampling = subsampling_given
        /\ (("type" \in DOMAIN subsampling_given
             /\ subsampling_given["type"] \in SubsamplingKinds
             /\ built.conv_subsampling # "none") =>
                built.conv_subsampling = ClassOf(subsampling_given["type"]))

\* the noise layer adds nothing (standard deviation 0: every sample is 0)
NoiseOff == enc.res.noise_sample = 0

\* no element is dropped: the call is not training, or the rate is 0
DropoutInactive == ~(enc.training /\ dropout_on)

\* the block stack applied to the clean output
BlocksOnClean ==
    RunPass(BlocksInOrder(num_blocks),
            [x |-> enc.res.output2, pe |-> PosEnc(pe_kind, enc.res.output2)],
            pe_kind, enc.training, dropout_on, 0, TRUE).x

\* C14 as stated: with noise standard deviation 0 and dropout inactive the
\* auxiliary loss returned by ConformerEncoder.call is 0, for every number of
\* Conformer blocks; the auxiliary loss is >= 0 and is 0 exactly when
\* output_noised equals output_clean.
C14_AsStated ==
    EncReturned =>
        /\ ((NoiseOff /\ DropoutInactive) => enc.res.mse_loss = 0)
        /\ enc.res.mse_loss >= 0
        /\ (enc.res.mse_loss = 0 <=> enc.res.output1 = enc.res.output2)

\* C14 amended: with noise standard deviation 0 and dropout inactive the
\* auxiliary loss is 0 when the encoder has no Conformer block; with one or
\* more blocks output_noised is the block stack applied to output_clean, and the
\* auxiliary loss is the squared difference between the stack's output and its
\* input.  In every call the auxiliary loss is the squared difference of the
\* two outputs, is >= 0, and is 0 exactly when output_noised equals
\* output_clean.
C14_AuxiliaryZero ==
    EncReturned =>
        /\ ((NoiseOff /\ DropoutInactive /\ num_blocks = 0) => enc.res.mse_loss = 0)
        /\ ((NoiseOff /\ DropoutInactive) => enc.res.output1 = BlocksOnClean)
        /\ enc.res.mse_loss =
             (enc.res.output1 - enc.res.output2) * (enc.res.output1 - enc.res.output2)
        /\ enc.res.mse_loss >= 0
        /\ (enc.res.mse_loss = 0 <=> enc.res.output1 = enc.res.output2)

\* a training call with a zero noise sample, rate 0 and two blocks, whose
\* auxiliary loss is not 0
C14_Witness ==
    /\ EncReturned /\ enc.training /\ NoiseOff /\ ~dropout_on
    /\ num_blocks = 2 /\ enc.res.mse_loss > 1

\* how often a pass calls a layer
Calls(pass, layer) == Cardinality({k \in DOMAIN pass : pass[k] = layer})

\* C16: in every ConformerEncoder.call the noised pass is noise -> subsampling
\* -> linear -> positional encoding -> dropout -> all N blocks in index order,
\* and the clean pass is subsampling -> linear -> dropout on the original
\* unperturbed input; the clean pass never goes through the noise layer, the
\* positional-encoding generator or a block, both passes use the same
\* subsampling, linear and dropout instances, and every call executes each of
\* the N blocks exactly once, whatever the value of ep.
C16_PassOrder ==
    enc.called =>
        /\ enc.res.pass1 =
             <<(<<"gn", 0>>), (<<"conv_subsampling", 0>>), (<<"linear", 0>>),
               (<<"pe", 0>>), (<<"do", 0>>)>>
             \o [i \in 1..num_blocks |-> <<"conformer_blocks", i - 1>>]
        /\ enc.res.pass2 =
             <<(<<"conv_subsampling", 0>>), (<<"linear", 0>>), (<<"do", 0>>)>>
        /\ \A k \in DOMAIN enc.res.pass2 :
              /\ enc.res.pass2[k][1] \notin {"gn", "pe", "conformer_blocks"}
              /\ Calls(enc.res.pass1, enc.res.pass2[k]) = 1
        /\ \A i \in 0..(num_blocks - 1) :
              /\ Calls(enc.res.pass1, <<"conformer_blocks", i>>) = 1
              /\ Calls(enc.res.pass2, <<"conformer_blocks", i>>) = 0
        /\ (DropoutInactive =>
              enc.res.output2 = Linear(ConvSubsampling(enc.inputs)))

\* a call of a two-block encoder after the annealing has ended
C16_Witness ==
    /\ EncReturned /\ num_blocks = 2 /\ enc.ep >= 9
    /\ Len(enc.res.pass1) = 7 /\ Len(enc.res.pass2) = 3

\* C17 as stated: the Gaussian perturbation is active in both modes: the call
\* applies the noise layer to the raw input features exactly once, before
\* subsampling, and the features are perturbed by the layer's sample whether
\* training is True or False.
C17_AsStated ==
    EncReturned =>
        /\ enc.res.pass1[1] = <<"gn", 0>>
        /\ Calls(enc.res.pass1, <<"gn", 0>>) = 1
        /\ Calls(enc.res.pass2, <<"gn", 0>>) = 0
        /\ enc.res.noised = enc.inputs + enc.res.noise_sample

\* C17 amended: every call applies the noise layer to the raw input features
\* exactly once, before subsampling, in the noised pass only; the layer takes
\* the training flag of the enclosing call, so the features are perturbed by
\* its sample when the encoder is called with training=True and pass through
\* unchanged when it is called with training=False.
C17_NoiseWhenTraining ==
    EncReturned =>
        /\ enc.res.pass1[1] = <<"gn", 0>>
        /\ Calls(enc.res.pass1, <<"gn", 0>>) = 1
        /\ Calls(enc.res.pass2, <<"gn", 0>>) = 0
        /\ (enc.training => enc.res.noised = enc.inputs + enc.res.noise_sample)
        /\ (~enc.training => enc.res.noised = enc.inputs)

\* a call with training=False and a non-zero sample that left the features
\* as they were
C17_Witness ==
    /\ EncReturned /\ ~enc.training /\ enc.res.noise_sample = 1
    /\ enc.res.noised = enc.inputs /\ enc.inputs = 1

\* the loss _train_step differentiates, as a function of the outputs of the
\* two encoder branches
StepLoss(ep, output1, output2, labels, gbs) ==
    ComputeAverageLoss(
        AddAuxiliary(RnntLoss(Joint(Blend(AnnealW(ep), output1, output2)), labels),
                     Lambda(ep), MseSum(output1, output2)),
        gbs)

\* the loss of the step in flight changes when output_noised alone changes
NoisedInfluences ==
    \E d \in {-1, 1} :
        StepLoss(tr.ep, enc.res.output1 + d, enc.res.output2, tr.labels,
                 global_batch_size) # tr.train_loss

\* the loss of the step in flight changes when output_clean alone changes
CleanInfluences ==
    \E d \in {-1, 1} :
        StepLoss(tr.ep, enc.res.output1, enc.res.output2 + d, tr.labels,
                 global_batch_size) # tr.train_loss

\* C15 as stated: in a plain-trainer training step, for every ep >= 1 both
\* encoder branches influence the differentiated total loss: output_noised and
\* output_clean each enter it, through the blend or through lambda *
\* auxiliary_loss, with a non-zero coefficient.
C15_AsStated ==
    tr.kind = "train" =>
        /\ NoisedInfluences
        /\ CleanInfluences
        /\ (enc.res.w # RInt(0) \/ tr.lambda_ # RInt(0))

\* C15 amended: in a plain-trainer training step output_noised influences the
\* differentiated total loss for every ep >= 1 (through lambda * auxiliary_loss
\* alone at ep = 1, where 1 - w = 0); output_clean influences it exactly for
\* 1 <= ep <= 7: for ep >= 8 both its coefficients, w in the blend and lambda
\* on the auxiliary loss, are 0 and no gradient flows through the clean branch.
C15_BranchInfluence ==
    tr.kind = "train" =>
        /\ tr.train_loss = StepLoss(tr.ep, enc.res.output1, enc.res.output2,
                                    tr.labels, global_batch_size)
        /\ NoisedInfluences
        /\ (CleanInfluences <=> tr.ep <= 7)
        /\ (tr.ep = 1 => (enc.res.w = RInt(1) /\ tr.lambda_ = RInt(1)))
        /\ (tr.ep >= 8 => (enc.res.w = RInt(0) /\ tr.lambda_ = RInt(0)))
        /\ (tr.ep <= 7 => (enc.res.w # RInt(0) /\ tr.lambda_ # RInt(0)))

\* a training step at ep = 9 whose two branches differ
C15_Witness ==
    /\ tr.kind = "train" /\ tr.ep = 9 /\ num_blocks > 0
    /\ enc.res.output1 # enc.res.output2 /\ ~CleanInfluences

\* the sum of the gradients of the microbatches of a window
WindowSum(window, gbs) ==
    RSum([k \in 1..Len(window) |-> Gradient(ComputeAverageLoss(window[k], gbs))])

\* C19 as stated: at the start of every call of _train_function the
\* accumulation buffer is all zeros, after any sequence of earlier calls,
\* including a call in which the iterator ran out before the K-th microbatch;
\* the gradient applied at the end of a window never contains gradients of
\* microbatches of an earlier window.
C19_AsStated ==
    /\ ga.start = ZeroBuffer
    /\ (Len(ga.events) > accumulation_steps =>
            ga.applied = WindowSum(ga.window, global_batch_size))

\* C19 amended: at the start of a call of _train_function the buffer holds the
\* sum of the microbatch gradients accumulated since the last completed
\* window: all zeros at the first call and after a call that completed its
\* window, but the partial sum of a call that the iterator's exhaustion (or
\* another exception) left before its K-th microbatch, which nothing resets;
\* the gradient applied at the end of a window is the buffer at the start of
\* the call plus the window's own K microbatch gradients.
C19_BufferAtStart ==
    [][/\ (ga_calls' # ga_calls) =>
              /\ ga'.start = accumulation
              /\ ga'.start = IF ga.returned THEN ZeroBuffer
                             ELSE RAdd(ga.start,
                                       WindowSum(ga.window, global_batch_size))
              /\ (ga'.start = ZeroBuffer <=>
                     (ga.returned \/ (ga.start = ZeroBuffer /\ ga.window = <<>>)))
       /\ (Len(ga.events) = accumulation_steps
           /\ Len(ga'.events) = accumulation_steps + 1) =>
              ga'.applied = RAdd(ga'.start,
                                 WindowSum(ga'.window, global_batch_size))]_vars

\* a window has been applied and reset in a call that started from the
\* partial sum an exhausted iterator left behind
C19_Witness ==
    /\ ga.returned /\ ga.start # ZeroBuffer
    /\ accumulation_steps = 2 /\ Len(ga.window) = 2
    /\ ga.applied # WindowSum(ga.window, global_batch_size)

\* a training or eval step starts
StepStarts == tr.kind = "none" /\ tr'.kind # "none"

\* C20 as stated: over a training run in which the step counter never
\* decreases, ep = steps // train_steps_per_epoch + 1 is always >= 1 and never
\* decreases, so lambda never increases from one step to the next, and once
\* lambda has become 0, which is at ep >= 9 (steps >= 8 * train_steps_per_epoch),
\* it stays 0; train and eval steps taken at the same step count use the same
\* ep.
C20_AsStated ==
    [][StepStarts =>
          /\ steps' >= steps
          /\ tr'.ep = (steps \div train_steps_per_epoch) + 1
          /\ tr'.ep >= 1
          /\ tr'.ep >= last_train.ep
          /\ (tr'.kind = "train" =>
                /\ (last_train.ep > 0 => RLe(tr'.lambda_, last_train.lambda_))
                /\ ((last_train.ep > 0 /\ last_train.lambda_ = RInt(0))
                       => tr'.lambda_ = RInt(0))
                /\ (tr'.lambda_ = RInt(0) <=> tr'.ep >= 9)
                /\ (tr'.ep >= 9 <=> steps >= 8 * train_steps_per_epoch))]_vars

\* C20 amended: over a training run in which the step counter never
\* decreases, ep = steps // train_steps_per_epoch + 1 is always >= 1 and never
\* decreases, so lambda never increases from one step to the next, and once
\* lambda has become 0, which is at ep >= 8 (steps >= 7 * train_steps_per_epoch),
\* it stays 0; train and eval steps taken at the same step count use the same
\* ep.
C20_EpochMonotone ==
    [][StepStarts =>
          /\ steps' >= steps
          /\ tr'.ep = (steps \div train_steps_per_epoch) + 1
          /\ tr'.ep >= 1
          /\ tr'.ep >= last_train.ep
          /\ (tr'.kind = "train" =>
                /\ (last_train.ep > 0 => RLe(tr'.lambda_, last_train.lambda_))
                /\ ((last_train.ep > 0 /\ last_train.lambda_ = RInt(0))
                       => tr'.lambda_ = RInt(0))
                /\ (tr'.lambda_ = RInt(0) <=> tr'.ep >= 8)
                /\ (tr'.ep >= 8 <=> steps >= 7 * train_steps_per_epoch))]_vars

\* an eval step at ep = 9 after the training step of ep = 8, whose lambda
\* was 0 already
C20_Witness ==
    /\ tr.kind = "eval" /\ tr.ep = 9
    /\ last_train.ep = 8 /\ last_train.lambda_ = RInt(0)
    /\ steps = 8 * train_steps_per_epoch

====
